---- MODULE Spec2Model ----
(***************************************************************************)
(* Jury deliberation and evidence-impact engine of courtroom_drama         *)
(* (src/game_logic.py: Juror, Jury; src/game_objects.py: Evidence), the    *)
(* game around it (src/game_logic.py: Game; src/ui_module.py: GameUI),     *)
(* the phase record and the save file (src/state_management.py: GameState, *)
(* GameSerializer) and the witness (src/game_objects.py: Witness).         *)
(*                                                                         *)
(* Specifications.  Spec: the operations of a Jury in any order.           *)
(* SpecJuror: one Juror built directly, with any tags.  SpecMalformed: a   *)
(* Jury handed evidence it cannot weigh.  SpecState: GameState alone.      *)
(* SpecGame: one Game played from case preparation to the verdict and into *)
(* the next case, at the console or through the UI handlers.  SpecTrial:   *)
(* one trial of a fresh jury of five on one piece of evidence.  SpecSave:  *)
(* a Game that is started, tried, saved and loaded.  SpecWitness: one      *)
(* Witness under a sequence of questions.                                  *)
(*                                                                         *)
(* Numbers.  Sentiment, impact and influence are Python floats.  They are  *)
(* modelled as exact fixed-point integers in units of 1/Scale (1e-4): the  *)
(* multiplier tables hold tenths, the 1.1 / 0.9 nudges are 11/10 and 9/10, *)
(* persuasiveness is held in tenths and (a - b) * 0.5 is (a - b) * Half.   *)
(* Every product the code forms is an integer in these units, so no        *)
(* rounding happens in the model; binary floating point rounding of the    *)
(* last bit is the one thing abstracted away.                              *)
(***************************************************************************)
EXTENDS Integers, Sequences, FiniteSets

VARIABLES
    jurors,        \* Jury.jurors: sequence of Juror records
    trial_events,  \* Jury.trial_events: the shared event log
    verdict,       \* value returned by the last Jury.get_verdict ("None" before)
    result,        \* value returned by the last Evidence.calculate_impact call
    history,       \* names of the operations called on the jury directly, in call order
    lastOp,        \* the last operation called or game step taken, with its arguments
    prevJurors,    \* Jury.jurors as it was when the last operation was called
    prevEvents,    \* Jury.trial_events as it was when the last operation was called
    preclamp,      \* per juror: sentiment just before line 59 in the last deliberate
    calls,         \* the Juror.deliberate calls made by the last operation
    outcome,       \* how the last operation ended: "returned" or "KeyError"
    state,         \* GameState: current_phase and the history list
    stateOps,      \* the GameState calls made so far, and the state before the last
    game,          \* Game / GameUI: position in the trial, case, selection
    tally,         \* what the trial has done so far, counted as it happens
    juror_labels,  \* the sentiments last handed to a display
    save_file,     \* the file save_game.json: whether it exists, and the dict in it
    witness        \* a Witness used on its own: personalities, stress, memory

vars == <<jurors, trial_events, verdict, result, history, lastOp,
          prevJurors, prevEvents, preclamp, calls, outcome,
          state, stateOps, game, tally, juror_labels, save_file, witness>>

----------------------------------------------------------------------------
(* Bounds *)

MaxJurors == 2
MaxOps == 3
MaxLog == 3
MaxCalls == 2
MaxStateCalls == 4
MaxGameLog == 10
MaxLaterSteps == 2

----------------------------------------------------------------------------
(* Fixed point *)

Scale == 10 * 10 * 10 * 10
Hundredth == 10 * 10
Half == (Scale \div 10) \div 2

Min(a, b) == IF a < b THEN a ELSE b
Max(a, b) == IF a > b THEN a ELSE b

----------------------------------------------------------------------------
(* Evidence.calculate_impact: the two multiplier tables, in tenths *)

personality_multipliers ==
    [Analytical |-> [Digital |-> 15, Physical |-> 12, Testimonial |-> 8],
     Empathetic |-> [Testimonial |-> 15, Physical |-> 10, Digital |-> 8],
     Skeptical  |-> [Digital |-> 10, Physical |-> 10, Testimonial |-> 7],
     DEFAULT    |-> [Digital |-> 10, Physical |-> 10, Testimonial |-> 10]]

bias_modifiers ==
    [p \in {"Favor Evidence-Based Arguments", "Skeptical", "Empathetic", "DEFAULT"} |->
        CASE p = "Favor Evidence-Based Arguments" ->
                 [Digital |-> 13, Physical |-> 12, Testimonial |-> 9]
          [] p = "Skeptical"  -> [Digital |-> 9, Physical |-> 9, Testimonial |-> 7]
          [] p = "Empathetic" -> [Digital |-> 8, Physical |-> 9, Testimonial |-> 13]
          [] OTHER            -> [Digital |-> 10, Physical |-> 10, Testimonial |-> 10]]

EmptyRow == [k \in {} |-> 0]

\* a lookup whose fallback for an unknown key is 0 instead of the DEFAULT row
TableLookup_ZeroDefault(table, key, kind) ==
    IF key \in DOMAIN table /\ kind \in DOMAIN table[key] THEN table[key][kind] ELSE 0

\* table.get(key, {}).get(kind, table["DEFAULT"][kind])
TableLookup(table, key, kind) ==
    LET row == IF key \in DOMAIN table THEN table[key] ELSE EmptyRow
        dflt == table["DEFAULT"][kind]
    IN  IF kind \in DOMAIN row THEN row[kind] ELSE dflt

\* Evidence.calculate_impact raises KeyError instead of returning: at line 41
\* when the metadata hold no 'impact_metric', at lines 55-56 when the kind is
\* in no DEFAULT row (the fallback DEFAULT[kind] is evaluated on every call)
Raises(evidence) ==
    \/ "impact_metric" \notin DOMAIN evidence
    \/ evidence.type \notin DOMAIN personality_multipliers["DEFAULT"]
    \/ evidence.type \notin DOMAIN bias_modifiers["DEFAULT"]

\* base_impact * personality_multiplier * bias_modifier, in units of 1/Scale
calculate_impact(evidence, juror) ==
    LET base_impact == evidence.impact_metric
        personality_multiplier ==
            TableLookup(personality_multipliers, juror.personality, evidence.type)
        bias_modifier == TableLookup(bias_modifiers, juror.bias, evidence.type)
    IN  base_impact * personality_multiplier * bias_modifier * Hundredth

----------------------------------------------------------------------------
(* Case context: a dict that may or may not hold "special_conditions" *)

SpecialConditions(case_context) ==
    IF "special_conditions" \in case_context.keys
    THEN case_context.special_conditions ELSE {}

Context(conds) == [keys |-> {"special_conditions"}, special_conditions |-> conds]
EmptyContext == [keys |-> {}, special_conditions |-> {}]

----------------------------------------------------------------------------
(* Juror *)

Juror(id, personality, bias, persuasiveness) ==
    [id |-> id, personality |-> personality, bias |-> bias,
     sentiment |-> 0, persuasiveness |-> persuasiveness]

\* the two condition blocks chained into one if/elif: the nudges do not stack
EvaluatedImpact_NoStacking(juror, evidence, case_context) ==
    LET impact0 == calculate_impact(evidence, juror)
        media == "media_attention" \in SpecialConditions(case_context)
        pressure == "political_pressure" \in SpecialConditions(case_context)
    IN  IF media /\ juror.bias = "Favor Evidence-Based Arguments"
        THEN (impact0 * 11) \div 10
        ELSE IF media /\ juror.bias = "Empathetic"
             THEN (impact0 * 9) \div 10
             ELSE IF pressure /\ juror.bias = "Skeptical"
                  THEN (impact0 * 11) \div 10
                  ELSE IF pressure /\ juror.bias = "Empathetic"
                       THEN (impact0 * 9) \div 10
                       ELSE impact0

\* lines 29-42: the impact that evaluate_evidence adds
EvaluatedImpact(juror, evidence, case_context) ==
    LET impact0 == calculate_impact(evidence, juror)
        impact1 ==
            IF "media_attention" \in SpecialConditions(case_context)
            THEN IF juror.bias = "Favor Evidence-Based Arguments"
                 THEN (impact0 * 11) \div 10
                 ELSE IF juror.bias = "Empathetic"
                      THEN (impact0 * 9) \div 10
                      ELSE impact0
            ELSE impact0
        impact2 ==
            IF "political_pressure" \in SpecialConditions(case_context)
            THEN IF juror.bias = "Skeptical"
                 THEN (impact1 * 11) \div 10
                 ELSE IF juror.bias = "Empathetic"
                      THEN (impact1 * 9) \div 10
                      ELSE impact1
            ELSE impact1
    IN  impact2

evaluate_evidence(juror, evidence, case_context) ==
    [juror EXCEPT !.sentiment = @ + EvaluatedImpact(juror, evidence, case_context)]

\* a replay that adds the impact the log entry carries instead of evaluating
\* the entry's evidence again
ReplayEvent_AddsLoggedImpact(juror, event) ==
    IF event.type \in {"evidence_presented", "witness_testimony"}
    THEN [juror EXCEPT !.sentiment = @ + event.impact]
    ELSE juror

\* lines 47-51: one event of the replay loop
ReplayEvent(juror, event) ==
    IF event.type = "evidence_presented"
    THEN evaluate_evidence(juror, event.evidence, event.case_context)
    ELSE IF event.type = "witness_testimony"
         THEN [juror EXCEPT !.sentiment = @ + event.impact]
         ELSE juror

RECURSIVE ReplayEvents(_, _)
ReplayEvents(juror, events) ==
    IF events = <<>> THEN juror
    ELSE ReplayEvents(ReplayEvent(juror, Head(events)), Tail(events))

\* influence drawn from the other juror's sentiment instead of persuasiveness
Influence_BySentiment(self, other_juror) ==
    (other_juror.sentiment - self.sentiment) \div 2

\* influence at full weight instead of half
Influence_FullWeight(self, other_juror) ==
    (other_juror.persuasiveness - self.persuasiveness) * (Scale \div 10)

\* influence received from the more persuasive jurors only
Influence_OneSided(self, other_juror) ==
    Max(other_juror.persuasiveness - self.persuasiveness, 0) * Half

\* line 56
Influence(self, other_juror) ==
    (other_juror.persuasiveness - self.persuasiveness) * Half

\* lines 54-57
RECURSIVE PeerInfluence(_, _)
PeerInfluence(juror, others) ==
    IF others = <<>> THEN juror
    ELSE LET other_juror == Head(others)
             next == IF juror.id # other_juror.id
                     THEN [juror EXCEPT !.sentiment = @ + Influence(juror, other_juror)]
                     ELSE juror
         IN  PeerInfluence(next, Tail(others))

\* a clamp that bounds the sentiment from above only
Clamp_UpperOnly(sentiment) == Min(sentiment, 5 * Scale)

\* a clamp with min and max exchanged: min(max(sentiment, 5), -5)
Clamp_Swapped(sentiment) == Min(Max(sentiment, 5 * Scale), -5 * Scale)

\* line 59
Clamp(sentiment) == Max(Min(sentiment, 5 * Scale), -5 * Scale)

\* lines 47-57: the juror as it is just before the clamp
DeliberateUnclamped(juror, events, all_jurors) ==
    PeerInfluence(ReplayEvents(juror, events), all_jurors)

\* line 59, on the juror
ClampSentiment(juror) == [juror EXCEPT !.sentiment = Clamp(@)]

deliberate(juror, events, all_jurors) ==
    ClampSentiment(DeliberateUnclamped(juror, events, all_jurors))

----------------------------------------------------------------------------
(* Trial events.  Every event is a dict with a 'type'; the fields a type   *)
(* does not carry are held at NoEvidence / EmptyContext.  'impact' is in   *)
(* units of 1/Scale.                                                       *)

NoEvidence == [type |-> "None", impact_metric |-> 0]

Event(type, evidence, case_context, impact) ==
    [type |-> type, evidence |-> evidence, case_context |-> case_context,
     impact |-> impact]

ImpactEvent(type, impact) == Event(type, NoEvidence, EmptyContext, impact * Scale)

----------------------------------------------------------------------------
(* Jury *)

\* Jury.__init__ lines 64-67 and Juror.__init__ line 25: the pools a juror is
\* drawn from; persuasiveness is random.uniform(0.5, 1.5), held in tenths
Personalities == {"Analytical", "Empathetic", "Skeptical"}
Biases == {"Favor Evidence-Based Arguments", "Skeptical", "Empathetic"}
PersuasivenessPool == {5, 10, 15}

\* The draws the jury specification explores: every personality, every bias
\* and every persuasiveness value occurs, in one juror profile each.
JurorProfiles ==
    {[personality |-> "Analytical", bias |-> "Favor Evidence-Based Arguments",
      persuasiveness |-> 15],
     [personality |-> "Empathetic", bias |-> "Empathetic", persuasiveness |-> 5],
     [personality |-> "Skeptical", bias |-> "Skeptical", persuasiveness |-> 10]}

\* lines 71-73; the loop ends at the first juror whose evaluate_evidence
\* raises, with what the earlier rounds have done
RECURSIVE AssessLoop(_, _, _, _, _)
AssessLoop(js, events, i, evidence, case_context) ==
    IF i > Len(js) THEN [jurors |-> js, trial_events |-> events, raised |-> FALSE]
    ELSE IF Raises(evidence)
    THEN [jurors |-> js, trial_events |-> events, raised |-> TRUE]
    ELSE AssessLoop(
            [js EXCEPT ![i] = evaluate_evidence(js[i], evidence, case_context)],
            Append(events, Event("evidence_presented", evidence, case_context,
                                 calculate_impact(evidence, js[i]))),
            i + 1, evidence, case_context)

\* a loop that starts at the second juror
assess_case_SkipFirst(js, events, evidence, case_context) ==
    AssessLoop(js, events, 2, evidence, case_context)

\* an assessment that lets evidence it cannot weigh count for nothing
assess_case_SkipsMalformed(js, events, evidence, case_context) ==
    IF Raises(evidence)
    THEN [jurors |-> js, trial_events |-> events, raised |-> FALSE]
    ELSE AssessLoop(js, events, 1, evidence, case_context)

assess_case(js, events, evidence, case_context) ==
    AssessLoop(js, events, 1, evidence, case_context)

\* lines 76-77, the jurors taken in the given order; each call is handed the
\* live juror list, in which the jurors deliberated earlier are already updated.
\* The call deliberate(juror, events, jurors) is ClampSentiment(pre), and pre is
\* what the call holds just before its line 59.
RECURSIVE DeliberateLoop(_, _, _)
DeliberateLoop(acc, events, order) ==
    IF order = <<>> THEN acc
    ELSE LET i == Head(order)
             pre == DeliberateUnclamped(acc.jurors[i], events, acc.jurors)
         IN  DeliberateLoop(
                [jurors   |-> [acc.jurors EXCEPT ![i] = ClampSentiment(pre)],
                 preclamp |-> [acc.preclamp EXCEPT ![i] = pre.sentiment],
                 calls    |-> Append(acc.calls,
                                [juror |-> acc.jurors[i].id,
                                 trial_events |-> events,
                                 all_jurors |-> [k \in 1..Len(acc.jurors) |->
                                                    acc.jurors[k].id]])],
                events, Tail(order))

JurorOrder(js) == [k \in 1..Len(js) |-> k]

DeliberateInOrder(js, events, order) ==
    DeliberateLoop([jurors |-> js, preclamp |-> [k \in 1..Len(js) |-> 0],
                    calls |-> <<>>], events, order)

\* a loop that stops before the last juror
deliberate_phase_SkipLast(js, events) ==
    DeliberateInOrder(js, events, [k \in 1..(Len(js) - 1) |-> k])

deliberate_phase(js, events) == DeliberateInOrder(js, events, JurorOrder(js))

\* line 80
RECURSIVE TotalSentiment(_)
TotalSentiment(js) ==
    IF js = <<>> THEN 0 ELSE Head(js).sentiment + TotalSentiment(Tail(js))

\* a verdict that counts a sum of exactly 0 as guilty
get_verdict_TieGuilty(js) == IF TotalSentiment(js) >= 0 THEN "Guilty" ELSE "Not Guilty"

get_verdict(js) == IF TotalSentiment(js) > 0 THEN "Guilty" ELSE "Not Guilty"

\* for juror in self.jury.jurors: juror.sentiment += delta
BumpAll(js, delta) == [k \in 1..Len(js) |-> [js[k] EXCEPT !.sentiment = @ + delta * Scale]]

----------------------------------------------------------------------------
(* Inputs *)

EvidenceKinds == {"Digital", "Physical", "Testimonial"}
Evidence(type, impact_metric) == [type |-> type, impact_metric |-> impact_metric]
ConditionTags == {"media_attention", "political_pressure"}
Contexts == {EmptyContext} \cup {Context(c) : c \in SUBSET ConditionTags}

\* What the jury specification presents: incriminating and exculpatory
\* evidence, under a context with no conditions and one with both.
JuryEvidence == {Evidence("Digital", 2), Evidence("Testimonial", -2)}
JuryContexts == {EmptyContext, Context(ConditionTags)}

Op(op, evidence, case_context, impact) ==
    [op |-> op, evidence |-> evidence, case_context |-> case_context, impact |-> impact]

NoOp == Op("None", NoEvidence, EmptyContext, 0)

----------------------------------------------------------------------------
(* A jury used on its own: no Game, GameUI or GameState is constructed *)

gameVars == <<state, stateOps, game, tally, juror_labels, save_file, witness>>

\* no Witness is looked at on its own
NoWitness == [name |-> "None"]

\* no file has been written
MissingFile == [exists |-> FALSE]

NoGame ==
    /\ state = [current_phase |-> "None", history |-> <<>>]
    /\ stateOps = [calls |-> <<>>, before |-> state]
    /\ game = [frontend |-> "None"]
    /\ tally = [k \in {} |-> 0]
    /\ juror_labels = <<>>
    /\ save_file = MissingFile
    /\ witness = NoWitness

----------------------------------------------------------------------------
(* Specification of the jury *)

Init ==
    /\ \E n \in 0..MaxJurors :
         \E draw \in [1..n -> JurorProfiles] :
            jurors = [i \in 1..n |->
                        Juror(i, draw[i].personality, draw[i].bias,
                              draw[i].persuasiveness)]
    /\ trial_events = <<>>
    /\ verdict = "None"
    /\ result = 0
    /\ history = <<>>
    /\ lastOp = NoOp
    /\ prevJurors = jurors
    /\ prevEvents = <<>>
    /\ preclamp = [k \in 1..Len(jurors) |-> 0]
    /\ calls = <<>>
    /\ outcome = "returned"
    /\ NoGame

CalledWith(op, how) ==
    /\ Len(history) < MaxOps
    /\ history' = Append(history, op.op)
    /\ lastOp' = op
    /\ prevJurors' = jurors
    /\ prevEvents' = trial_events
    /\ outcome' = how
    /\ UNCHANGED gameVars

Called(op) == CalledWith(op, "returned")

AssessCaseOf(evidence, case_context) ==
    /\ Raises(evidence) \/ Len(trial_events) + Len(jurors) <= MaxLog
    /\ \E r \in {assess_case(jurors, trial_events, evidence, case_context)} :
           /\ CalledWith(Op("assess_case", evidence, case_context, 0),
                         IF r.raised THEN "KeyError" ELSE "returned")
           /\ jurors' = r.jurors
           /\ trial_events' = r.trial_events
    /\ calls' = <<>>
    /\ UNCHANGED <<verdict, result, preclamp>>

AssessCase ==
    \E evidence \in JuryEvidence, case_context \in JuryContexts :
        AssessCaseOf(evidence, case_context)

\* Game.opening_statements, lines 313-314
OpeningStatement ==
    \E impact \in 1..2 :
        /\ Len(trial_events) < MaxLog
        /\ Called(Op("opening_statement", NoEvidence, EmptyContext, impact))
        /\ trial_events' = Append(trial_events, ImpactEvent("opening_statement", impact))
        /\ calls' = <<>>
        /\ UNCHANGED <<jurors, verdict, result, preclamp>>

\* Game.examine_witnesses, lines 395-396
WitnessTestimony ==
    \E impact \in -1..2 :
        /\ Len(trial_events) < MaxLog
        /\ Called(Op("witness_testimony", NoEvidence, EmptyContext, impact))
        /\ trial_events' = Append(trial_events, ImpactEvent("witness_testimony", impact))
        /\ calls' = <<>>
        /\ UNCHANGED <<jurors, verdict, result, preclamp>>

\* a deliberation that consumes the log it has applied
DeliberatePhase_ConsumesLog ==
    /\ Called(Op("deliberate_phase", NoEvidence, EmptyContext, 0))
    /\ LET r == deliberate_phase(jurors, trial_events)
       IN  /\ jurors' = r.jurors
           /\ preclamp' = r.preclamp
           /\ calls' = r.calls
    /\ trial_events' = <<>>
    /\ UNCHANGED <<verdict, result>>

DeliberatePhase ==
    /\ Called(Op("deliberate_phase", NoEvidence, EmptyContext, 0))
    /\ LET r == deliberate_phase(jurors, trial_events)
       IN  /\ jurors' = r.jurors
           /\ preclamp' = r.preclamp
           /\ calls' = r.calls
    /\ UNCHANGED <<trial_events, verdict, result>>

GetVerdict ==
    /\ Called(Op("get_verdict", NoEvidence, EmptyContext, 0))
    /\ verdict' = get_verdict(jurors)
    /\ calls' = <<>>
    /\ UNCHANGED <<jurors, trial_events, result, preclamp>>

Next ==
    \/ AssessCase
    \/ OpeningStatement
    \/ WitnessTestimony
    \/ DeliberatePhase
    \/ GetVerdict

Spec == Init /\ [][Next]_vars

----------------------------------------------------------------------------
(* Specification of the jury handed evidence it cannot weigh: metadata      *)
(* without 'impact_metric', or a kind that is in no table.                  *)

MalformedEvidence == {[type |-> "Digital"], [type |-> "Test", impact_metric |-> 2]}

AssessMalformed ==
    \E evidence \in MalformedEvidence, case_context \in JuryContexts :
        AssessCaseOf(evidence, case_context)

\* jury.jurors[i].evaluate_evidence(evidence, case_context), called directly
EvaluateEvidence ==
    \E i \in 1..Len(jurors), evidence \in JuryEvidence \cup MalformedEvidence :
        /\ CalledWith(Op("evaluate_evidence", evidence, EmptyContext, 0),
                      IF Raises(evidence) THEN "KeyError" ELSE "returned")
        /\ jurors' = IF Raises(evidence) THEN jurors
                      ELSE [jurors EXCEPT ![i] =
                              evaluate_evidence(jurors[i], evidence, EmptyContext)]
        /\ calls' = <<>>
        /\ UNCHANGED <<trial_events, verdict, result, preclamp>>

NextMalformed ==
    \/ AssessCase
    \/ AssessMalformed
    \/ EvaluateEvidence

SpecMalformed == Init /\ [][NextMalformed]_vars

----------------------------------------------------------------------------
(* Specification of one juror: a Juror built directly, with any tags, on   *)
(* which evaluate_evidence and Evidence.calculate_impact are called.       *)

AnyPersonality == Personalities \cup {"DEFAULT", "Stoic"}
AnyBias == Biases \cup {"DEFAULT", "Impartial"}
BaseImpacts == {2, 3}
EvidencePool == {Evidence(k, b) : k \in EvidenceKinds, b \in BaseImpacts}

InitJuror ==
    /\ \E personality \in AnyPersonality, bias \in AnyBias,
          persuasiveness \in PersuasivenessPool :
            jurors = <<Juror(1, personality, bias, persuasiveness)>>
    /\ trial_events = <<>>
    /\ verdict = "None"
    /\ result = 0
    /\ history = <<>>
    /\ lastOp = NoOp
    /\ prevJurors = jurors
    /\ prevEvents = <<>>
    /\ preclamp = <<0>>
    /\ calls = <<>>
    /\ outcome = "returned"
    /\ NoGame

JurorCalled(op) ==
    /\ Len(history) < MaxCalls
    /\ history' = Append(history, op.op)
    /\ lastOp' = op
    /\ prevJurors' = jurors
    /\ prevEvents' = trial_events
    /\ outcome' = "returned"
    /\ UNCHANGED gameVars

JurorEvaluateEvidence ==
    \E evidence \in EvidencePool, case_context \in Contexts :
        /\ JurorCalled(Op("evaluate_evidence", evidence, case_context, 0))
        /\ jurors' = <<evaluate_evidence(jurors[1], evidence, case_context)>>
        /\ UNCHANGED <<trial_events, verdict, result, preclamp, calls>>

JurorCalculateImpact ==
    \E evidence \in EvidencePool :
        /\ JurorCalled(Op("calculate_impact", evidence, EmptyContext, 0))
        /\ result' = calculate_impact(evidence, jurors[1])
        /\ UNCHANGED <<jurors, trial_events, verdict, preclamp, calls>>

NextJuror ==
    \/ JurorEvaluateEvidence
    \/ JurorCalculateImpact

SpecJuror == InitJuror /\ [][NextJuror]_vars

----------------------------------------------------------------------------
(* GameState (src/state_management.py): the current phase and the list of  *)
(* phases left behind.                                                      *)

GamePhase ==
    {"MAIN_MENU", "CASE_PREPARATION", "COURTROOM_PROCEEDINGS", "DELIBERATION",
     "VERDICT", "GAME_OVER"}

GameState == [current_phase |-> "MAIN_MENU", history |-> <<>>]

transition_to(gs, new_phase) ==
    [gs EXCEPT !.history = Append(@, gs.current_phase), !.current_phase = new_phase]

\* an undo that reads the top of the history without removing it
undo_Peek(gs) ==
    IF gs.history # <<>>
    THEN [gs EXCEPT !.current_phase = gs.history[Len(gs.history)]]
    ELSE gs

undo(gs) ==
    IF gs.history # <<>>
    THEN [current_phase |-> gs.history[Len(gs.history)],
          history |-> SubSeq(gs.history, 1, Len(gs.history) - 1)]
    ELSE gs

StateCall(op, phase) == [op |-> op, phase |-> phase]

\* no Jury is constructed
NoJury ==
    /\ jurors = <<>>
    /\ trial_events = <<>>
    /\ verdict = "None"
    /\ result = 0
    /\ history = <<>>
    /\ lastOp = NoOp
    /\ prevJurors = <<>>
    /\ prevEvents = <<>>
    /\ preclamp = <<>>
    /\ calls = <<>>
    /\ outcome = "returned"

juryVars == <<jurors, trial_events, verdict, result, history, lastOp,
              prevJurors, prevEvents, preclamp, calls, outcome>>

InitState ==
    /\ NoJury
    /\ state = GameState
    /\ stateOps = [calls |-> <<>>, before |-> state]
    /\ game = [frontend |-> "None"]
    /\ tally = [k \in {} |-> 0]
    /\ juror_labels = <<>>
    /\ save_file = MissingFile
    /\ witness = NoWitness

StateCalled(call) ==
    /\ Len(stateOps.calls) < MaxStateCalls
    /\ stateOps' = [calls |-> Append(stateOps.calls, call), before |-> state]
    /\ UNCHANGED <<juryVars, game, tally, juror_labels, save_file, witness>>

TransitionTo ==
    \E new_phase \in GamePhase :
        /\ StateCalled(StateCall("transition_to", new_phase))
        /\ state' = transition_to(state, new_phase)

Undo ==
    /\ StateCalled(StateCall("undo", "None"))
    /\ state' = undo(state)

NextState ==
    \/ TransitionTo
    \/ Undo

SpecState == InitState /\ [][NextState]_vars

----------------------------------------------------------------------------
(* Game (src/game_logic.py) and GameUI (src/ui_module.py): one case from   *)
(* preparation to verdict, and the next case after it.                     *)
(*                                                                         *)
(* A handler that waits for the player is cut at its input() calls: each   *)
(* action is the code from one prompt to the next.  game.pc names the      *)
(* prompt the console game waits at.  What the AI answers and what         *)
(* random draws are inputs of the actions.                                 *)

\* EvidenceFactory.generate_evidence: the metadata of one piece of evidence
\* and the flag EvidenceBuilder.authenticate_evidence has drawn for it
CaseEvidence(type, impact_metric, description, synergy, authenticated) ==
    [type |-> type, impact_metric |-> impact_metric, description |-> description,
     synergy |-> synergy, authenticated |-> authenticated]

\* a case of three pieces of evidence, the first two naming each other's
\* kind as synergy partner
EvidenceList(flags) ==
    <<CaseEvidence("Digital", 2, "records", {"Testimonial"}, flags[1]),
      CaseEvidence("Testimonial", 1, "statement", {"Digital"}, flags[2]),
      CaseEvidence("Physical", 1, "ledger", {}, flags[3])>>

\* three of the eight outcomes of the authentication rolls
AuthenticationRolls == {<<TRUE, TRUE, TRUE>>, <<TRUE, TRUE, FALSE>>, <<FALSE, TRUE, TRUE>>}

\* the witnesses of the case, as many as the order prompt's example
\* "1,2 or 2,1" names
CaseWitnesses == <<"witness_1", "witness_2">>

\* what the player types at a prompt for numbers: a list of tokens, each a
\* number or not (isdigit)
Token(n) == [isdigit |-> TRUE, int |-> n]
NotDigits == [isdigit |-> FALSE, int |-> 0]

\* a line typed at the evidence prompt: 'none', or comma-separated tokens
Typed(indices) == [none |-> FALSE, indices |-> indices]
TypedNone == [none |-> TRUE, indices |-> <<>>]

InRangeOf(token, list) == token.isdigit /\ 1 <= token.int /\ token.int <= Len(list)

\* self.selected_evidence[description] = evidence on a dict kept in
\* insertion order
DictSet(dict, evidence) ==
    IF \E k \in 1..Len(dict) : dict[k].description = evidence.description
    THEN [k \in 1..Len(dict) |->
            IF dict[k].description = evidence.description THEN evidence ELSE dict[k]]
    ELSE Append(dict, evidence)

\* lines 247-259: the pass over the typed indices
RECURSIVE SelectEvidenceLoop(_, _, _)
SelectEvidenceLoop(acc, evidence_list, indices) ==
    IF indices = <<>> THEN acc
    ELSE LET idx == Head(indices)
         IN  SelectEvidenceLoop(
                IF InRangeOf(idx, evidence_list)
                THEN IF evidence_list[idx.int].authenticated
                     THEN [acc EXCEPT !.selected_evidence =
                                        DictSet(@, evidence_list[idx.int])]
                     ELSE [acc EXCEPT !.valid_selection = FALSE]
                ELSE [acc EXCEPT !.valid_selection = FALSE],
                evidence_list, Tail(indices))

\* lines 240-261, one round of the loop: "none", or a list of indices
SelectEvidence(evidence_list, typed) ==
    IF typed.none THEN [selected_evidence |-> <<>>, valid_selection |-> TRUE]
    ELSE SelectEvidenceLoop([selected_evidence |-> <<>>, valid_selection |-> TRUE],
                            evidence_list, typed.indices)

\* lines 269-277: the pass over the typed order, left at the first bad token
RECURSIVE OrderLoop(_, _, _)
OrderLoop(acc, witnesses, order_indices) ==
    IF order_indices = <<>> THEN acc
    ELSE IF InRangeOf(Head(order_indices), witnesses)
    THEN OrderLoop([acc EXCEPT !.temp_order = Append(@, Head(order_indices).int)],
                   witnesses, Tail(order_indices))
    ELSE [acc EXCEPT !.valid = FALSE]

\* lines 265-283, one round of the loop; the order holds 1-based positions
SelectOrder(witnesses, typed) ==
    LET r == OrderLoop([temp_order |-> <<>>, valid |-> TRUE], witnesses, typed)
    IN  [temp_order |-> r.temp_order,
         accepted |-> r.valid /\ Len(r.temp_order) = Len(witnesses)]

\* lines 387-393: how many times one pass of the two nested loops over
\* selected_evidence reaches the line that adds 1 to every juror
SynergyHits(selected_evidence) ==
    Cardinality({pair \in (1..Len(selected_evidence)) \X (1..Len(selected_evidence)) :
        LET evidence == selected_evidence[pair[1]]
            other_evidence == selected_evidence[pair[2]]
        IN  /\ evidence.description # other_evidence.description
            /\ other_evidence.type \in evidence.synergy
            /\ evidence.type \in other_evidence.synergy})

\* lines 487-488: assess_case for every selected piece of evidence in turn
RECURSIVE AssessSelected(_, _, _)
AssessSelected(acc, selected_evidence, case_context) ==
    IF selected_evidence = <<>> THEN acc
    ELSE AssessSelected(
            assess_case(acc.jurors, acc.trial_events, Head(selected_evidence),
                        case_context),
            Tail(selected_evidence), case_context)

\* a loss that costs as much as a win brings
ReputationChange_LossCostsTen(role, v) ==
    IF (role = "Prosecution" /\ v = "Guilty") \/ (role = "Defense" /\ v = "Not Guilty")
    THEN 10 ELSE 0 - 10

\* lines 496-503 and ui_module.py lines 363-370
ReputationChange(role, v) ==
    IF (role = "Prosecution" /\ v = "Guilty") \/ (role = "Defense" /\ v = "Not Guilty")
    THEN 10 ELSE 0 - 5

Sentiments(js) == [k \in 1..Len(js) |-> js[k].sentiment]

\* the jurors Jury.__init__ has drawn for the game's jury: seat k holds
\* the k-th of these profiles
SeatProfiles ==
    <<[personality |-> "Analytical", bias |-> "Favor Evidence-Based Arguments",
       persuasiveness |-> 15],
      [personality |-> "Empathetic", bias |-> "Empathetic", persuasiveness |-> 5],
      [personality |-> "Skeptical", bias |-> "Skeptical", persuasiveness |-> 10]>>

SeatProfile(k) == SeatProfiles[((k - 1) % Len(SeatProfiles)) + 1]

GameJury(n) ==
    [k \in 1..n |-> Juror(k, SeatProfile(k).personality, SeatProfile(k).bias,
                          SeatProfile(k).persuasiveness)]

\* CaseFactory.generate_case: the context always holds "special_conditions"
CaseContext == Context({"media_attention"})

\* the case templates the factory has loaded
CaseTemplates == <<"template_1">>

EvidenceInputs ==
    {TypedNone, Typed(<<Token(1)>>), Typed(<<Token(1), Token(2)>>),
     Typed(<<Token(1), Token(2), Token(3)>>), Typed(<<Token(3), NotDigits>>),
     Typed(<<Token(Len(EvidenceList([k \in 1..3 |-> TRUE])) + 1)>>)}

OrderInputs ==
    {<<Token(1), Token(2)>>, <<Token(2), Token(1)>>, <<Token(1), Token(1)>>,
     <<Token(1)>>, <<Token(Len(CaseWitnesses) + 1), Token(1)>>, <<NotDigits>>}

\* the two ends of random.randint(-1, 2)
TestimonyImpacts == {-1, 2}
QuestionsPerWitness == 3
\* lines 407-412 and 430-435: what a ruling adds to every juror
RulingDelta(ruling) == IF ruling = "Sustained" THEN 1 ELSE 0 - 1

\* Texts are sequences of characters.  str.lower(), on the letters that
\* occur in the texts below
UpperCase == <<"D", "E", "I", "L", "N", "O", "R", "S", "T", "U", "V">>
LowerCase == <<"d", "e", "i", "l", "n", "o", "r", "s", "t", "u", "v">>

LowerChar(c) ==
    IF \E k \in 1..Len(UpperCase) : UpperCase[k] = c
    THEN LowerCase[CHOOSE k \in 1..Len(UpperCase) : UpperCase[k] = c]
    ELSE c

Lower(text) == [k \in 1..Len(text) |-> LowerChar(text[k])]

\* word in text
Contains(text, word) ==
    \E k \in 1..(Len(text) - Len(word) + 1) : SubSeq(text, k, k + Len(word) - 1) = word

Sustained == <<"s", "u", "s", "t", "a", "i", "n", "e", "d">>
Overruled == <<"o", "v", "e", "r", "r", "u", "l", "e", "d">>

\* what the judge's model can answer: a ruling in either case of letters,
\* a text with neither word, a text with both, and the text
\* generate_response returns when the request fails
JudgeResponses ==
    {<<"S", "u", "s", "t", "a", "i", "n", "e", "d", ".">>,
     <<"O", "V", "E", "R", "R", "U", "L", "E", "D">>,
     <<"d", "e", "n", "i", "e", "d">>,
     <<"n", "o", "t", " ">> \o Overruled \o <<":", " ">> \o Sustained,
     <<"[", "E", "r", "r", "o", "r", "]">>}

\* lines 451-456: the ruling read from the response
ClassifyRuling(ruling) ==
    IF Contains(Lower(ruling), Sustained) THEN "Sustained"
    ELSE IF Contains(Lower(ruling), Overruled) THEN "Overruled"
    ELSE "Overruled"

\* ai_module.py line 49: PromptManager.__init__(self) takes no argument
\* besides self; game_logic.py line 439 passes one, self.config
PromptManagerParameters == 0
PromptManagerArguments == 1

\* Game.judge_ruling, lines 438-456, when the judge's model would answer
\* with the given text: line 439 raises TypeError before the prompt is
\* built, so the request of line 449 is never made
judge_ruling(response) ==
    IF PromptManagerArguments # PromptManagerParameters
    THEN [raised |-> TRUE, ruling |-> "None"]
    ELSE [raised |-> FALSE, ruling |-> ClassifyRuling(response)]

NewTally ==
    [fresh_at_start |-> TRUE, opening_statements |-> 0, witness_answers |-> 0,
     objection_rulings |-> 0, synergy_bonuses |-> 0,
     assessed_unauthenticated |-> FALSE, handlers |-> 0, later_steps |-> 0,
     jury_calls |-> <<>>, reputation_before |-> 0, judge_response |-> <<>>,
     questions |-> <<>>]

\* one call of a method of self.jury, as the trial's record of calls holds it
JuryCall(op, description) == [op |-> op, evidence |-> description]

\* the calls of lines 488-489, one per item of selected_evidence, in order
AssessCalls(selected_evidence) ==
    [k \in 1..Len(selected_evidence) |->
        JuryCall("assess_case", selected_evidence[k].description)]

InitGame ==
    /\ jurors = GameJury(MaxJurors)
    /\ trial_events = <<>>
    /\ verdict = "None"
    /\ result = 0
    /\ history = <<>>
    /\ lastOp = NoOp
    /\ prevJurors = jurors
    /\ prevEvents = <<>>
    /\ preclamp = [k \in 1..Len(jurors) |-> 0]
    /\ calls = <<>>
    /\ outcome = "returned"
    /\ state = transition_to(GameState, "CASE_PREPARATION")
    /\ stateOps = [calls |-> <<>>, before |-> GameState]
    /\ \E frontend \in {"console", "ui"}, flags \in AuthenticationRolls :
          game = [frontend |-> frontend,
                  pc |-> IF frontend = "console" THEN "select_evidence" ELSE "ui",
                  role |-> "None",
                  evidence_list |-> EvidenceList(flags),
                  witnesses |-> CaseWitnesses,
                  case_context |-> CaseContext,
                  selected_evidence |-> <<>>,
                  selected_witness_order |-> <<>>,
                  witness |-> 0,
                  q_num |-> 0,
                  reputation |-> 0,
                  unlocked_cases |-> 1,
                  completed_cases |-> 0,
                  entered |-> "continue_case"]
    /\ tally = NewTally
    /\ juror_labels = Sentiments(jurors)
    /\ save_file = MissingFile
    /\ witness = NoWitness

\* one step of the game, on a piece of evidence, ending as given
GameStepEnding(name, evidence, js, events, g, t, how) ==
    /\ Len(events) <= MaxGameLog
    /\ t.later_steps <= MaxLaterSteps
    /\ lastOp' = Op(name, evidence, EmptyContext, 0)
    /\ prevJurors' = jurors
    /\ prevEvents' = trial_events
    /\ jurors' = js
    /\ trial_events' = events
    /\ game' = g
    /\ tally' = [t EXCEPT !.reputation_before = game.reputation]
    /\ outcome' = how
    /\ UNCHANGED <<result, history, stateOps, save_file, witness>>

GameStepOn(name, evidence, js, events, g, t) ==
    GameStepEnding(name, evidence, js, events, g, t, "returned")

GameStep(name, js, events, g, t) == GameStepOn(name, NoEvidence, js, events, g, t)

\* a step of the console game: the steps of a case entered through
\* next_case are counted
ConsoleStep(name, js, events, g, t) ==
    GameStep(name, js, events, g,
             IF g.entered = "next_case" THEN [t EXCEPT !.later_steps = @ + 1] ELSE t)

\* a step of the console game in which an objection goes to the judge: the
\* ruling is applied to every juror, or the exception of judge_ruling
\* leaves examine_witnesses and ends the trial where it stands
ObjectionStep(name, response, g) ==
    LET r == judge_ruling(response)
        t == [tally EXCEPT !.judge_response = response,
                           !.later_steps = IF g.entered = "next_case" THEN @ + 1 ELSE @]
    IN  IF r.raised
        THEN GameStepEnding(name, NoEvidence, jurors, trial_events,
                            [game EXCEPT !.pc = "aborted"], t, "TypeError")
        ELSE GameStepEnding(name, NoEvidence, BumpAll(jurors, RulingDelta(r.ruling)),
                            trial_events, g,
                            [t EXCEPT !.objection_rulings = @ + 1], "returned")

AtPrompt(pc) == game.frontend = "console" /\ game.pc = pc

\* Game.case_preparation, lines 238-261: one line typed at the evidence prompt
CasePreparationEvidence ==
    \E typed \in EvidenceInputs :
        /\ AtPrompt("select_evidence")
        /\ LET r == SelectEvidence(game.evidence_list, typed)
           IN  ConsoleStep("case_preparation", jurors, trial_events,
                        [game EXCEPT !.selected_evidence = r.selected_evidence,
                                     !.pc = IF r.valid_selection THEN "select_order"
                                            ELSE "select_evidence"],
                        tally)
        /\ UNCHANGED <<verdict, preclamp, calls, state, juror_labels>>

\* Game.case_preparation, lines 263-285: one line typed at the order prompt
CasePreparationOrder ==
    \E typed \in OrderInputs :
        /\ AtPrompt("select_order")
        /\ LET r == SelectOrder(game.witnesses, typed)
           IN  ConsoleStep("case_preparation", jurors, trial_events,
                        IF r.accepted
                        THEN [game EXCEPT !.selected_witness_order = r.temp_order,
                                          !.pc = "opening_statements"]
                        ELSE game,
                        tally)
        /\ UNCHANGED <<verdict, preclamp, calls, state, juror_labels>>

\* an opening statement whose impact is added to every juror at once
OpeningStatements_AppliesImpact ==
    \E role \in {"Prosecution", "Defense"}, impact \in 1..2 :
        /\ AtPrompt("opening_statements")
        /\ game.role # "None" => role = game.role
        /\ ConsoleStep("opening_statements", BumpAll(jurors, impact),
                    Append(trial_events, ImpactEvent("opening_statement", impact)),
                    [game EXCEPT !.role = role, !.pc = "question",
                                 !.witness = 1, !.q_num = 1],
                    [tally EXCEPT !.opening_statements = @ + 1])
        /\ UNCHANGED <<verdict, preclamp, calls, state, juror_labels>>

\* Game.opening_statements, lines 293-344: choose_role when no role is set;
\* then the generated statement with its logged impact, or, when generation
\* raises, the statement picked from the fixed list
OpeningStatements ==
    \E role \in {"Prosecution", "Defense"}, generated \in BOOLEAN, impact \in 1..2 :
        /\ AtPrompt("opening_statements")
        /\ game.role # "None" => role = game.role
        /\ ~generated => impact = 1
        /\ ConsoleStep("opening_statements", jurors,
                    IF generated
                    THEN Append(trial_events, ImpactEvent("opening_statement", impact))
                    ELSE trial_events,
                    [game EXCEPT !.role = role, !.pc = "question",
                                 !.witness = 1, !.q_num = 1],
                    [tally EXCEPT !.opening_statements = @ + 1])
        /\ UNCHANGED <<verdict, preclamp, calls, state, juror_labels>>

\* Game.examine_witnesses, lines 377-396: the answer to one question, the
\* synergy check run after it, and the testimony event
AnswerQuestion ==
    \E impact \in TestimonyImpacts :
        /\ AtPrompt("question")
        /\ LET hits == SynergyHits(game.selected_evidence)
           IN  ConsoleStep("witness_answer", BumpAll(jurors, hits),
                        Append(trial_events, ImpactEvent("witness_testimony", impact)),
                        [game EXCEPT !.pc = "objection"],
                        [tally EXCEPT !.witness_answers = @ + 1,
                                      !.synergy_bonuses = @ + hits,
                                      !.questions = Append(@,
                                          game.selected_witness_order[game.witness])])
        /\ UNCHANGED <<verdict, preclamp, calls, state, juror_labels>>

\* lines 398-400 and Game.raise_objection, lines 415-436
PlayerObjection ==
    \E objection \in {"yes", "no"}, response \in JudgeResponses :
        /\ AtPrompt("objection")
        /\ IF objection = "yes"
           THEN ObjectionStep("raise_objection", response,
                              [game EXCEPT !.pc = "opposing_objection"])
           ELSE /\ response = CHOOSE x \in JudgeResponses : TRUE
                /\ ConsoleStep("no_objection", jurors, trial_events,
                               [game EXCEPT !.pc = "opposing_objection"], tally)
        /\ UNCHANGED <<verdict, preclamp, calls, state, juror_labels>>

\* where examine_witnesses goes after a question: the next question, the
\* next witness of the chosen order, or the closing arguments
AfterQuestion(g) ==
    IF g.q_num < QuestionsPerWitness
    THEN [g EXCEPT !.q_num = @ + 1, !.pc = "question"]
    ELSE IF g.witness < Len(g.selected_witness_order)
    THEN [g EXCEPT !.witness = @ + 1, !.q_num = 1, !.pc = "question"]
    ELSE [g EXCEPT !.pc = "closing_arguments"]

\* lines 402-413: the opposing side objects with probability 0.3
OpposingObjection ==
    \E objects \in BOOLEAN, response \in JudgeResponses :
        /\ AtPrompt("opposing_objection")
        /\ IF objects
           THEN ObjectionStep("opposing_objection", response, AfterQuestion(game))
           ELSE /\ response = CHOOSE x \in JudgeResponses : TRUE
                /\ ConsoleStep("no_objection", jurors, trial_events,
                               AfterQuestion(game), tally)
        /\ UNCHANGED <<verdict, preclamp, calls, state, juror_labels>>

\* Game.closing_arguments, lines 458-484: the impact drawn at line 480 is
\* not used
ClosingArguments ==
    /\ AtPrompt("closing_arguments")
    /\ ConsoleStep("closing_arguments", jurors, trial_events,
                [game EXCEPT !.pc = "deliberation_and_verdict"], tally)
    /\ UNCHANGED <<verdict, preclamp, calls, state, juror_labels>>

\* a deliberation_and_verdict that calls deliberate_phase a second time
\* before it asks for the verdict
DeliberationAndVerdict_DeliberatesTwice ==
    /\ AtPrompt("deliberation_and_verdict")
    /\ LET a == AssessSelected([jurors |-> jurors, trial_events |-> trial_events,
                                raised |-> FALSE],
                               game.selected_evidence, game.case_context)
           d1 == deliberate_phase(a.jurors, a.trial_events)
           d == deliberate_phase(d1.jurors, a.trial_events)
           v == get_verdict(d.jurors)
           next == game.entered = "next_case"
       IN  /\ ConsoleStep("deliberation_and_verdict", d.jurors, a.trial_events,
                       [game EXCEPT !.pc = "done",
                                    !.reputation = @ + ReputationChange(game.role, v),
                                    !.completed_cases = IF next THEN @ + 1 ELSE @,
                                    !.unlocked_cases = IF next THEN @ + 1 ELSE @],
                       [tally EXCEPT !.jury_calls =
                           @ \o AssessCalls(game.selected_evidence)
                             \o <<JuryCall("deliberate_phase", "None"),
                                  JuryCall("deliberate_phase", "None"),
                                  JuryCall("get_verdict", "None")>>])
           /\ preclamp' = d.preclamp
           /\ calls' = d.calls
           /\ verdict' = v
           /\ juror_labels' = Sentiments(d.jurors)
    /\ UNCHANGED state

\* Game.deliberation_and_verdict, lines 486-504, and, in a case entered
\* through next_case, lines 207-208.  The call of next_case at line 504 is
\* not awaited: it builds a coroutine that never runs.
DeliberationAndVerdict ==
    /\ AtPrompt("deliberation_and_verdict")
    /\ LET a == AssessSelected([jurors |-> jurors, trial_events |-> trial_events,
                                raised |-> FALSE],
                               game.selected_evidence, game.case_context)
           d == deliberate_phase(a.jurors, a.trial_events)
           v == get_verdict(d.jurors)
           next == game.entered = "next_case"
       IN  /\ ConsoleStep("deliberation_and_verdict", d.jurors, a.trial_events,
                       [game EXCEPT !.pc = "done",
                                    !.reputation = @ + ReputationChange(game.role, v),
                                    !.completed_cases = IF next THEN @ + 1 ELSE @,
                                    !.unlocked_cases = IF next THEN @ + 1 ELSE @],
                       [tally EXCEPT !.assessed_unauthenticated =
                           @ \/ \E k \in 1..Len(game.selected_evidence) :
                                    ~game.selected_evidence[k].authenticated,
                                     !.jury_calls =
                           @ \o AssessCalls(game.selected_evidence)
                             \o <<JuryCall("deliberate_phase", "None"),
                                  JuryCall("get_verdict", "None")>>])
           /\ preclamp' = d.preclamp
           /\ calls' = d.calls
           /\ verdict' = v
           /\ juror_labels' = Sentiments(d.jurors)
    /\ UNCHANGED state

\* Game.next_case, lines 194-203 and 209-213, awaited once the case is over
NextCase ==
    \E flags \in AuthenticationRolls, role \in {"Prosecution", "Defense"} :
        /\ AtPrompt("done")
        /\ IF game.unlocked_cases <= Len(CaseTemplates)
           THEN /\ state' = transition_to(state, "CASE_PREPARATION")
                /\ ConsoleStep("next_case", jurors, trial_events,
                            [game EXCEPT !.evidence_list = EvidenceList(flags),
                                         !.role = role,
                                         !.pc = "select_evidence",
                                         !.entered = "next_case"],
                            [tally EXCEPT !.synergy_bonuses = 0,
                                !.jury_calls = <<>>,
                                !.questions = <<>>,
                                !.fresh_at_start =
                                    /\ trial_events = <<>>
                                    /\ \A k \in 1..Len(jurors) : jurors[k].sentiment = 0])
           ELSE /\ flags = [k \in 1..3 |-> TRUE]
                /\ role = "Prosecution"
                /\ state' = transition_to(state, "GAME_OVER")
                /\ ConsoleStep("next_case", jurors, trial_events,
                            [game EXCEPT !.pc = "exited"], tally)
        /\ UNCHANGED <<verdict, preclamp, calls, juror_labels>>

\* a click that presents the evidence whatever its authenticated flag
PresentEvidence_NoCheck ==
    \E k \in 1..Len(game.evidence_list) :
        /\ game.frontend = "ui"
        /\ tally.handlers < MaxOps
        /\ LET evidence == game.evidence_list[k]
               r == assess_case(jurors, trial_events, evidence, game.case_context)
           IN  /\ GameStepOn("present_evidence", evidence, r.jurors, r.trial_events,
                             game,
                             [tally EXCEPT !.handlers = @ + 1,
                                 !.assessed_unauthenticated =
                                     @ \/ ~evidence.authenticated,
                                 !.jury_calls = Append(@,
                                     JuryCall("assess_case", evidence.description))])
               /\ juror_labels' = Sentiments(r.jurors)
        /\ UNCHANGED <<verdict, preclamp, calls, state>>

\* GameUI.present_evidence, ui_module.py lines 161-171: a click on the
\* button of one piece of evidence
PresentEvidence ==
    \E k \in 1..Len(game.evidence_list) :
        /\ game.frontend = "ui"
        /\ tally.handlers < MaxOps
        /\ LET evidence == game.evidence_list[k]
               r == assess_case(jurors, trial_events, evidence, game.case_context)
           IN  IF ~evidence.authenticated
               THEN /\ GameStepOn("present_evidence", evidence, jurors, trial_events,
                                  game, [tally EXCEPT !.handlers = @ + 1])
                    /\ UNCHANGED juror_labels
               ELSE /\ GameStepOn("present_evidence", evidence, r.jurors,
                                  r.trial_events, game,
                                  [tally EXCEPT !.handlers = @ + 1,
                                      !.jury_calls = Append(@,
                                          JuryCall("assess_case", evidence.description))])
                    /\ juror_labels' = Sentiments(r.jurors)
        /\ UNCHANGED <<verdict, preclamp, calls, state>>

\* GameUI.deliberation_and_verdict, ui_module.py lines 356-371; the call of
\* next_case at line 371 is not awaited
UIDeliberationAndVerdict ==
    /\ game.frontend = "ui"
    /\ tally.handlers < MaxOps
    /\ LET d == deliberate_phase(jurors, trial_events)
           v == get_verdict(d.jurors)
       IN  /\ GameStep("ui_deliberation_and_verdict", d.jurors, trial_events,
                       [game EXCEPT !.reputation = @ + ReputationChange(game.role, v)],
                       [tally EXCEPT !.handlers = @ + 1,
                           !.jury_calls = @ \o <<JuryCall("deliberate_phase", "None"),
                                                 JuryCall("get_verdict", "None")>>])
           /\ preclamp' = d.preclamp
           /\ calls' = d.calls
           /\ verdict' = v
           /\ juror_labels' = Sentiments(d.jurors)
    /\ UNCHANGED state

NextGame ==
    \/ CasePreparationEvidence
    \/ CasePreparationOrder
    \/ OpeningStatements
    \/ AnswerQuestion
    \/ PlayerObjection
    \/ OpposingObjection
    \/ ClosingArguments
    \/ DeliberationAndVerdict
    \/ NextCase
    \/ PresentEvidence
    \/ UIDeliberationAndVerdict

SpecGame == InitGame /\ [][NextGame]_vars

----------------------------------------------------------------------------
(* One trial of a jury of the default size: one assess_case, one            *)
(* deliberate_phase, one get_verdict (the flow of                           *)
(* tests/test_court_session.py, on a real Jury).                            *)

\* Jury.__init__, line 62: number_of_jurors = 5
JurySize == 5

\* what one juror can be drawn as: lines 65-66 and line 25, the
\* persuasiveness taken at the two ends of [0.5, 1.5], where the influence
\* of the other jurors on one juror is largest
PersonalityList == <<"Analytical", "Empathetic", "Skeptical">>
BiasList == <<"Favor Evidence-Based Arguments", "Skeptical", "Empathetic">>
PersuasivenessList == <<5, 15>>

DrawCount == Len(PersonalityList) * Len(BiasList) * Len(PersuasivenessList)

Draw(k) ==
    [personality |-> PersonalityList[((k - 1) \div (Len(BiasList) * Len(PersuasivenessList))) + 1],
     bias |-> BiasList[(((k - 1) \div Len(PersuasivenessList)) % Len(BiasList)) + 1],
     persuasiveness |-> PersuasivenessList[((k - 1) % Len(PersuasivenessList)) + 1]]

\* the juries of n jurors, each listed once: no call of the trial looks at
\* the seat a juror sits in, so the jurors of a jury are listed in the
\* order of Draw
RECURSIVE DrawsFrom(_, _)
DrawsFrom(n, lowest) ==
    IF n = 0 THEN {<<>>}
    ELSE UNION {{<<k>> \o rest : rest \in DrawsFrom(n - 1, k)} : k \in lowest..DrawCount}

JuryOf(draws) ==
    [i \in 1..Len(draws) |->
        Juror(i, Draw(draws[i]).personality, Draw(draws[i]).bias,
              Draw(draws[i]).persuasiveness)]

TrialEvidence == Evidence("Digital", 2)

InitTrial ==
    /\ \E draws \in DrawsFrom(JurySize, 1) : jurors = JuryOf(draws)
    /\ trial_events = <<>>
    /\ verdict = "None"
    /\ result = 0
    /\ history = <<>>
    /\ lastOp = NoOp
    /\ prevJurors = jurors
    /\ prevEvents = <<>>
    /\ preclamp = [k \in 1..Len(jurors) |-> 0]
    /\ calls = <<>>
    /\ outcome = "returned"
    /\ NoGame

\* the call is the next one of the trial
TrialCalled(done, op) ==
    /\ history = done
    /\ history' = Append(history, op.op)
    /\ lastOp' = op
    /\ prevJurors' = jurors
    /\ prevEvents' = trial_events
    /\ outcome' = "returned"
    /\ UNCHANGED gameVars

TrialAssessCase ==
    /\ TrialCalled(<<>>, Op("assess_case", TrialEvidence, EmptyContext, 0))
    /\ \E r \in {assess_case(jurors, trial_events, TrialEvidence, EmptyContext)} :
           /\ jurors' = r.jurors
           /\ trial_events' = r.trial_events
    /\ UNCHANGED <<verdict, result, preclamp, calls>>

TrialDeliberatePhase ==
    /\ TrialCalled(<<"assess_case">>, Op("deliberate_phase", NoEvidence, EmptyContext, 0))
    /\ \E r \in {deliberate_phase(jurors, trial_events)} :
           /\ jurors' = r.jurors
           /\ preclamp' = r.preclamp
    /\ UNCHANGED <<trial_events, verdict, result, calls>>

TrialGetVerdict ==
    /\ TrialCalled(<<"assess_case", "deliberate_phase">>,
                   Op("get_verdict", NoEvidence, EmptyContext, 0))
    /\ verdict' = get_verdict(jurors)
    /\ UNCHANGED <<jurors, trial_events, result, preclamp, calls>>

NextTrial ==
    \/ TrialAssessCase
    \/ TrialDeliberatePhase
    \/ TrialGetVerdict

SpecTrial == InitTrial /\ [][NextTrial]_vars

----------------------------------------------------------------------------
(* Saving and loading (src/game_logic.py: Game.save_game, Game.load_game;   *)
(* src/state_management.py: GameSerializer).  The Game keeps current_case   *)
(* and reputation in attributes of its own; its GameState has the           *)
(* attributes active_case and player_reputation, and those are what is      *)
(* written to the file.                                                     *)

MaxSaveOps == 4

\* a Case, known by its title; None
Case(title) == [title |-> title]
NoCase == [none |-> TRUE]
CaseTitles == {"case_1", "case_2"}

\* JSON null
JsonNull == [null |-> TRUE]

\* GameState.__init__, lines 46-55, every attribute that is saved
NewGameState ==
    [current_phase |-> "MAIN_MENU", history |-> <<>>, active_case |-> NoCase,
     player_reputation |-> 0, completed_cases |-> <<>>, unlocked_cases |-> 1]

\* GameSerializer._serialize_case and _deserialize_case, on what a Case is
\* known by
SerializeCase(case) == [title |-> case.title]
DeserializeCase(case_dict) == Case(case_dict.title)

\* GameSerializer.save_game_state, lines 72-78: the dict written to the file
save_game_state(game_state) ==
    [phase |-> game_state.current_phase,
     reputation |-> game_state.player_reputation,
     completed_cases |-> [k \in 1..Len(game_state.completed_cases) |->
                            SerializeCase(game_state.completed_cases[k])],
     current_case |-> IF game_state.active_case # NoCase
                      THEN SerializeCase(game_state.active_case) ELSE JsonNull,
     unlocked_cases |-> game_state.unlocked_cases]

\* GameSerializer.load_game_state, lines 87-106: a new GameState filled from
\* the dict
load_game_state(state_dict) ==
    [NewGameState EXCEPT
        !.current_phase = state_dict.phase,
        !.player_reputation = state_dict.reputation,
        !.completed_cases = [k \in 1..Len(state_dict.completed_cases) |->
                                DeserializeCase(state_dict.completed_cases[k])],
        !.active_case = IF state_dict.current_case # JsonNull
                        THEN DeserializeCase(state_dict.current_case) ELSE NoCase,
        !.unlocked_cases = state_dict.unlocked_cases]

InitSave ==
    /\ NoJury
    /\ state = NewGameState
    /\ stateOps = [calls |-> <<>>, before |-> state]
    /\ game = [frontend |-> "menu", current_case |-> NoCase, reputation |-> 0,
               unlocked_cases |-> 1, completed_cases |-> <<>>]
    /\ tally = [before_save |-> [current_case |-> NoCase, reputation |-> 0]]
    /\ juror_labels = <<>>
    /\ save_file = MissingFile
    /\ witness = NoWitness

SaveCalled(op) ==
    /\ Len(history) < MaxSaveOps
    /\ history' = Append(history, op)
    /\ lastOp' = Op(op, NoEvidence, EmptyContext, 0)
    /\ outcome' = "returned"
    /\ UNCHANGED <<jurors, trial_events, verdict, result, prevJurors, prevEvents,
                   preclamp, calls, stateOps, juror_labels, witness>>

\* Game.start_career_mode, lines 153-165
StartCareerMode ==
    \E title \in CaseTitles :
        /\ SaveCalled("start_career_mode")
        /\ state' = transition_to([state EXCEPT !.player_reputation = 0,
                                                !.unlocked_cases = 1],
                                  "CASE_PREPARATION")
        /\ game' = [game EXCEPT !.current_case = Case(title)]
        /\ UNCHANGED <<tally, save_file>>

\* Game.deliberation_and_verdict, lines 493-503, of a case that has been
\* tried: the verdict is read and the reputation changed by it
VerdictReached ==
    \E role \in {"Prosecution", "Defense"}, v \in {"Guilty", "Not Guilty"} :
        /\ game.current_case # NoCase
        /\ SaveCalled("deliberation_and_verdict")
        /\ game' = [game EXCEPT !.reputation = @ + ReputationChange(role, v)]
        /\ UNCHANGED <<state, tally, save_file>>

\* Game.save_game, lines 516-523
SaveGame ==
    /\ SaveCalled("save_game")
    /\ save_file' = [exists |-> TRUE, state_dict |-> save_game_state(state)]
    /\ tally' = [tally EXCEPT !.before_save =
                    [current_case |-> game.current_case,
                     reputation |-> game.reputation]]
    /\ UNCHANGED <<state, game>>

\* Game.load_game, lines 525-547
LoadGame ==
    /\ SaveCalled("load_game")
    /\ IF ~save_file.exists
       THEN UNCHANGED <<state, game>>
       ELSE /\ state' = load_game_state(save_file.state_dict)
            /\ game' = [game EXCEPT !.current_case = state'.active_case,
                                    !.reputation = state'.player_reputation,
                                    !.unlocked_cases = state'.unlocked_cases,
                                    !.completed_cases = state'.completed_cases]
    /\ UNCHANGED <<tally, save_file>>

NextSave ==
    \/ StartCareerMode
    \/ VerdictReached
    \/ SaveGame
    \/ LoadGame

SpecSave == InitSave /\ [][NextSave]_vars

----------------------------------------------------------------------------
(* A witness under questioning (src/game_objects.py: Witness).  The        *)
(* witness is used on its own: update_stress is called directly, or        *)
(* through respond, whose first statement it is.                           *)

MaxStressCalls == 3
MaxPersonalities == 2

\* traits of the witness templates; "Calm" stands for a trait that no
\* table of update_stress lists
WitnessPersonalities == {"Nervous", "Defensive", "Evasive", "Suspicious", "Calm"}

PersonalityLists ==
    UNION {[1..n -> WitnessPersonalities] : n \in 0..MaxPersonalities}

Strategies == {"Friendly", "Neutral", "Aggressive"}

\* Witness.update_stress, lines 115-119
stress_modifiers ==
    [Aggressive |-> [Nervous |-> 3, Defensive |-> 2, Evasive |-> 2, DEFAULT |-> 2],
     Neutral    |-> [DEFAULT |-> 1],
     Friendly   |-> [Suspicious |-> 1, Evasive |-> 0 - 2, DEFAULT |-> 0 - 1]]

\* dict.get(key, default)
Get(dict, key, default) == IF key \in DOMAIN dict THEN dict[key] ELSE default

\* line 120
default_modifier(strategy) ==
    Get(Get(stress_modifiers, strategy, <<>>), "DEFAULT", 0)

\* lines 121-122: next() takes the first item of the generator, the
\* modifier of the first personality, or the default when the list is empty
personality_modifier(strategy, personalities) ==
    IF personalities = <<>> THEN default_modifier(strategy)
    ELSE Get(stress_modifiers[strategy], personalities[1], default_modifier(strategy))

\* a clamp with no lower end
StressClamp_NoFloor(stress) == Min(stress, 10)

\* line 123: max(min(stress, 10), 0)
StressClamp(stress) == Max(Min(stress, 10), 0)

\* Witness.update_stress as a whole
update_stress(w, strategy) ==
    LET unclamped == w.stress + personality_modifier(strategy, w.personalities)
    IN  [w EXCEPT !.stress = StressClamp(unclamped), !.unclamped = unclamped]

\* Witness.__init__, lines 61-74: stress starts at base_stress; memory is
\* a deque, of which the number of entries is kept
InitWitness ==
    /\ NoJury
    /\ state = [current_phase |-> "None", history |-> <<>>]
    /\ stateOps = [calls |-> <<>>, before |-> state]
    /\ game = [frontend |-> "None"]
    /\ tally = [k \in {} |-> 0]
    /\ juror_labels = <<>>
    /\ save_file = MissingFile
    /\ \E personalities \in PersonalityLists, base_stress \in 0..10 :
          witness = [name |-> "witness_1", personalities |-> personalities,
                     base_stress |-> base_stress, stress |-> base_stress,
                     unclamped |-> base_stress, memory |-> 0, calls |-> 0]

WitnessCalled(op) ==
    /\ witness.calls < MaxStressCalls
    /\ lastOp' = Op(op, NoEvidence, EmptyContext, 0)
    /\ outcome' = "returned"
    /\ UNCHANGED <<jurors, trial_events, verdict, result, history, prevJurors,
                   prevEvents, preclamp, calls, state, stateOps, game, tally,
                   juror_labels, save_file>>

\* Witness.update_stress, lines 114-123
UpdateStress ==
    \E strategy \in Strategies :
        /\ WitnessCalled("update_stress")
        /\ witness' = [update_stress(witness, strategy) EXCEPT !.calls = @ + 1]

\* Witness.respond, lines 76-112: update_stress, then the answer of the
\* model goes into testimony and memory
Respond ==
    \E strategy \in Strategies :
        /\ WitnessCalled("respond")
        /\ witness' = [update_stress(witness, strategy) EXCEPT
                            !.memory = Min(@ + 1, 20), !.calls = @ + 1]

NextWitness ==
    \/ UpdateStress
    \/ Respond

SpecWitness == InitWitness /\ [][NextWitness]_vars

----------------------------------------------------------------------------
(* Quantities the properties are stated in *)

Indices == 1..Len(jurors)
InRange(x) == -5 * Scale <= x /\ x <= 5 * Scale
After(op) == lastOp.op = op

\* sum of js[1..n].sentiment
RECURSIVE SentimentUpTo(_, _)
SentimentUpTo(js, n) == IF n = 0 THEN 0 ELSE SentimentUpTo(js, n - 1) + js[n].sentiment

\* sum over the jurors k # i of (persuasiveness[k] - persuasiveness[i]) * 0.5
RECURSIVE PeerTotalUpTo(_, _, _)
PeerTotalUpTo(js, i, n) ==
    IF n = 0 THEN 0
    ELSE PeerTotalUpTo(js, i, n - 1)
         + (IF n # i
            THEN ((js[n].persuasiveness - js[i].persuasiveness) * Scale) \div 20
            ELSE 0)

PeerTotal(js, i) == PeerTotalUpTo(js, i, Len(js))

\* sum of the 'impact' values carried by the events whose type is in types
RECURSIVE CarriedImpact(_, _)
CarriedImpact(events, types) ==
    IF events = <<>> THEN 0
    ELSE (IF Head(events).type \in types THEN Head(events).impact ELSE 0)
         + CarriedImpact(Tail(events), types)

\* sum over the evidence_presented events of the juror's evaluated impact
RECURSIVE ReplayedEvidence(_, _)
ReplayedEvidence(juror, events) ==
    IF events = <<>> THEN 0
    ELSE (IF Head(events).type = "evidence_presented"
          THEN EvaluatedImpact(juror, Head(events).evidence, Head(events).case_context)
          ELSE 0)
         + ReplayedEvidence(juror, Tail(events))

JurorOrders(n) == {f \in [1..n -> 1..n] : \A a, b \in 1..n : f[a] = f[b] => a = b}

\* the nudge factors of evaluate_evidence, in tenths
MediaFactor(bias) ==
    CASE bias = "Favor Evidence-Based Arguments" -> 11
      [] bias = "Empathetic" -> 9
      [] OTHER -> 10

PressureFactor(bias) ==
    CASE bias = "Skeptical" -> 11
      [] bias = "Empathetic" -> 9
      [] OTHER -> 10

\* a table's factor for a key, the DEFAULT row's 1.0 for a key it lacks
RowFactor(table, recognized, key, kind) ==
    IF key \in recognized THEN table[key][kind] ELSE 10

----------------------------------------------------------------------------
(* C1: once deliberate_phase has returned, every juror's sentiment lies in *)
(* the closed range [-5, 5], whatever was called before.                   *)
C1_SentimentInRangeAfterDeliberate ==
    After("deliberate_phase") => \A i \in Indices : InRange(jurors[i].sentiment)

C1_Witness ==
    /\ After("deliberate_phase")
    /\ Len(history) = MaxOps
    /\ \E i \in Indices : ~InRange(preclamp[i]) /\ InRange(jurors[i].sentiment)

(* C2: get_verdict returns "Guilty" exactly when the jurors' sentiments sum *)
(* to more than 0, and "Not Guilty" otherwise, a sum of 0 and an empty jury *)
(* included.                                                                *)
C2_VerdictGuiltyIffPositiveSum ==
    After("get_verdict") =>
        /\ verdict \in {"Guilty", "Not Guilty"}
        /\ verdict = "Guilty" <=> SentimentUpTo(jurors, Len(jurors)) > 0
        /\ Len(jurors) = 0 => verdict = "Not Guilty"

C2_Witness ==
    /\ After("get_verdict")
    /\ Len(jurors) > 0
    /\ \E i \in Indices : jurors[i].sentiment # 0
    /\ SentimentUpTo(jurors, Len(jurors)) = 0
    /\ verdict = "Not Guilty"

(* C3: calculate_impact returns baseImpact x personality factor x bias      *)
(* factor, each factor taken from the row of the juror's tag and 1.0 for an *)
(* unrecognized tag; the value is not clamped.                              *)
C3_ImpactIsProductOfFactors ==
    After("calculate_impact") =>
        LET e == lastOp.evidence
            j == jurors[1]
            pm == RowFactor(personality_multipliers, Personalities \cup {"DEFAULT"},
                            j.personality, e.type)
            bm == RowFactor(bias_modifiers, Biases \cup {"DEFAULT"}, j.bias, e.type)
        IN  result * 100 = e.impact_metric * pm * bm * Scale

C3_Witness ==
    /\ After("calculate_impact")
    /\ jurors[1].personality = "Stoic"
    /\ jurors[1].bias = "Favor Evidence-Based Arguments"
    /\ lastOp.evidence = Evidence("Digital", 3)
    /\ result * 10 = 39 * Scale

(* C4: evaluate_evidence adds the computed impact scaled by the media and   *)
(* the political-pressure factor of the juror's bias, each applied only     *)
(* when its condition is present, both when both are (0.81 for Empathetic), *)
(* and by nothing else.                                                     *)
C4_EvaluateAddsNudgedImpact ==
    After("evaluate_evidence") =>
        LET e == lastOp.evidence
            conds == IF "special_conditions" \in lastOp.case_context.keys
                     THEN lastOp.case_context.special_conditions ELSE {}
            j == prevJurors[1]
            fm == IF "media_attention" \in conds THEN MediaFactor(j.bias) ELSE 10
            fp == IF "political_pressure" \in conds THEN PressureFactor(j.bias) ELSE 10
        IN  /\ (jurors[1].sentiment - j.sentiment) * 100
                 = calculate_impact(e, j) * fm * fp
            /\ jurors[1] = [j EXCEPT !.sentiment = jurors[1].sentiment]

C4_Witness ==
    /\ After("evaluate_evidence")
    /\ lastOp.case_context = Context(ConditionTags)
    /\ prevJurors[1].bias = "Empathetic"
    /\ prevJurors[1].sentiment # 0
    /\ (jurors[1].sentiment - prevJurors[1].sentiment) * 100
         = calculate_impact(lastOp.evidence, prevJurors[1]) * 81

(* C5: during deliberate every witness-testimony event and every            *)
(* opening-statement event of the log adds its carried impact to the        *)
(* juror's sentiment exactly once, before the peer-influence pass.          *)
C5_TestimonyAndOpeningImpactsAdded ==
    After("deliberate_phase") =>
        \A i \in Indices :
            preclamp[i] = prevJurors[i].sentiment
                          + ReplayedEvidence(prevJurors[i], prevEvents)
                          + CarriedImpact(prevEvents,
                                {"witness_testimony", "opening_statement"})
                          + PeerTotal(prevJurors, i)

(* C6: one assess_case followed by one deliberate_phase adds the evidence's *)
(* evaluated impact to each juror's pre-clamp sentiment exactly twice, for  *)
(* a jury of any size.                                                      *)
C6_EvidenceCountedTwice ==
    history = <<"assess_case", "deliberate_phase">> =>
        \A i \in Indices :
            preclamp[i] = 2 * EvaluatedImpact(jurors[i], trial_events[1].evidence,
                                              trial_events[1].case_context)
                          + PeerTotal(jurors, i)

(* C6 as amended: the evaluated impact is added 1 + N times for a jury of   *)
(* N jurors, once at presentation and once for each of the N log entries    *)
(* the presentation made.                                                   *)
C6_EvidenceCountedOncePlusJurySize ==
    history = <<"assess_case", "deliberate_phase">> =>
        \A i \in Indices :
            preclamp[i] = (1 + Len(jurors))
                            * EvaluatedImpact(jurors[i], trial_events[1].evidence,
                                              trial_events[1].case_context)
                          + PeerTotal(jurors, i)

C6_Witness ==
    /\ history = <<"assess_case", "deliberate_phase">>
    /\ Len(jurors) = MaxJurors
    /\ \A i \in Indices :
         /\ EvaluatedImpact(jurors[i], trial_events[1].evidence,
                            trial_events[1].case_context) # 0
         /\ preclamp[i] # PeerTotal(jurors, i)

(* C7: assess_case on N jurors evaluates the evidence once for every juror  *)
(* and appends N evidence_presented entries, one per juror in juror order,  *)
(* each carrying the evidence and the case context.                         *)
C7_AssessAppendsOneEntryPerJuror ==
    After("assess_case") =>
        /\ Len(jurors) = Len(prevJurors)
        /\ Len(trial_events) = Len(prevEvents) + Len(jurors)
        /\ SubSeq(trial_events, 1, Len(prevEvents)) = prevEvents
        /\ \A i \in Indices :
             /\ trial_events[Len(prevEvents) + i]
                  = Event("evidence_presented", lastOp.evidence, lastOp.case_context,
                          calculate_impact(lastOp.evidence, prevJurors[i]))
             /\ jurors[i].sentiment
                  = prevJurors[i].sentiment
                    + EvaluatedImpact(prevJurors[i], lastOp.evidence,
                                      lastOp.case_context)

C7_Witness ==
    /\ After("assess_case")
    /\ Len(jurors) = MaxJurors
    /\ Len(prevEvents) > 0
    /\ Len(trial_events) = Len(prevEvents) + MaxJurors
    /\ trial_events[Len(prevEvents) + 1].impact # trial_events[Len(trial_events)].impact

(* C8: one deliberate_phase calls deliberate exactly once on every juror,   *)
(* each time with the whole trial-event log and the whole juror list.       *)
C8_DeliberateOncePerJuror ==
    After("deliberate_phase") =>
        /\ Len(calls) = Len(jurors)
        /\ \A i \in Indices :
             /\ calls[i].juror = jurors[i].id
             /\ calls[i].trial_events = trial_events
             /\ calls[i].all_jurors = [k \in Indices |-> jurors[k].id]
        /\ \A i \in Indices : Cardinality({c \in 1..Len(calls) :
                                            calls[c].juror = jurors[i].id}) = 1

C8_Witness ==
    /\ After("deliberate_phase")
    /\ Len(jurors) = MaxJurors
    /\ Len(trial_events) >= 2
    /\ Len(calls) = MaxJurors

(* C9: the sentiments after deliberate_phase are the same for every order   *)
(* in which the jurors are deliberated, and the same as when every juror    *)
(* deliberates on the jury as it was before the phase.                      *)
C9_DeliberationOrderIrrelevant ==
    After("deliberate_phase") =>
        /\ \A order \in JurorOrders(Len(prevJurors)) :
             DeliberateInOrder(prevJurors, prevEvents, order).jurors = jurors
        /\ jurors = [i \in Indices |-> deliberate(prevJurors[i], prevEvents, prevJurors)]

C9_Witness ==
    /\ After("deliberate_phase")
    /\ Len(jurors) = MaxJurors
    /\ trial_events # <<>>
    /\ \E i, k \in Indices :
         /\ prevJurors[i].sentiment # prevJurors[k].sentiment
         /\ prevJurors[i].persuasiveness # prevJurors[k].persuasiveness
         /\ jurors[i].sentiment # prevJurors[i].sentiment

(* C10: the peer-influence pass adds (other.persuasiveness -                *)
(* self.persuasiveness) x 0.5 once for every other juror, nothing for the   *)
(* juror itself, and what A receives from B is the negation of what B       *)
(* receives from A.                                                         *)
C10_PeerInfluenceAntisymmetric ==
    After("deliberate_phase") =>
        /\ \A i \in Indices :
             preclamp[i] - ReplayEvents(prevJurors[i], prevEvents).sentiment
               = PeerTotal(prevJurors, i)
        /\ \A a, b \in Indices :
             /\ Influence(prevJurors[a], prevJurors[b])
                  = -Influence(prevJurors[b], prevJurors[a])
             /\ a # b =>
                  PeerInfluence(prevJurors[a], <<prevJurors[b]>>).sentiment
                    - prevJurors[a].sentiment
                  = ((prevJurors[b].persuasiveness - prevJurors[a].persuasiveness)
                       * Scale) \div 20
             /\ PeerInfluence(prevJurors[a], <<prevJurors[a]>>) = prevJurors[a]

C10_Witness ==
    /\ After("deliberate_phase")
    /\ Len(jurors) = MaxJurors
    /\ \E a, b \in Indices :
         /\ Influence(prevJurors[a], prevJurors[b]) > 0
         /\ PeerTotal(prevJurors, a) # 0

----------------------------------------------------------------------------
(* C20 *)

TransitionTargets == SelectSeq(stateOps.calls, LAMBDA c : c.op = "transition_to")
UndoCount == Len(SelectSeq(stateOps.calls, LAMBDA c : c.op = "undo"))

\* the calls are some transitions followed by some undos
TransitionsThenUndos ==
    \A i \in 1..Len(stateOps.calls) : \A j \in 1..Len(stateOps.calls) :
        (i < j /\ stateOps.calls[i].op = "undo") => stateOps.calls[j].op = "undo"

PhaseAfterFirst(m) ==
    IF m = 0 THEN "MAIN_MENU" ELSE TransitionTargets[m].phase

LastStateCall == stateOps.calls[Len(stateOps.calls)]

\* C20: GameState is an undo stack of phases.  It starts in MAIN_MENU;
\* transition_to(p) makes p current and pushes the phase it leaves; after n
\* transitions followed by k <= n undos the current phase is the one reached
\* after the first n - k transitions; an undo on an empty history changes
\* nothing.
C20_GameStateIsUndoStack ==
    /\ stateOps.calls = <<>> => state = [current_phase |-> "MAIN_MENU", history |-> <<>>]
    /\ (stateOps.calls # <<>> /\ LastStateCall.op = "transition_to") =>
          /\ state.current_phase = LastStateCall.phase
          /\ state.history = Append(stateOps.before.history,
                                    stateOps.before.current_phase)
    /\ (stateOps.calls # <<>> /\ LastStateCall.op = "undo"
          /\ stateOps.before.history = <<>>) => state = stateOps.before
    /\ TransitionsThenUndos =>
          LET n == Len(TransitionTargets)
              k == UndoCount
          IN  /\ k <= n => state.current_phase = PhaseAfterFirst(n - k)
              /\ k <= n => Len(state.history) = n - k
              /\ k > n => state = [current_phase |-> "MAIN_MENU", history |-> <<>>]

C20_Witness ==
    /\ TransitionsThenUndos
    /\ Len(TransitionTargets) = 2
    /\ UndoCount = 2
    /\ TransitionTargets[1].phase = "CASE_PREPARATION"
    /\ TransitionTargets[2].phase = "COURTROOM_PROCEEDINGS"
    /\ state.current_phase = "MAIN_MENU"

----------------------------------------------------------------------------
(* C19 *)

Identity(juror) ==
    [id |-> juror.id, personality |-> juror.personality, bias |-> juror.bias,
     persuasiveness |-> juror.persuasiveness]

IsPrefix(a, b) == Len(a) <= Len(b) /\ SubSeq(b, 1, Len(a)) = a

\* C19: the jury operations change nothing but sentiments and the tail of
\* the log.  No operation changes which jurors there are, their order, or a
\* juror's id, personality, bias or persuasiveness; no operation removes,
\* reorders or alters an entry already in the log; deliberate_phase leaves
\* the log as it is; get_verdict changes neither jurors nor log.
C19_OnlySentimentAndLogTailChange ==
    /\ Len(jurors) = Len(prevJurors)
    /\ \A i \in Indices : Identity(jurors[i]) = Identity(prevJurors[i])
    /\ IsPrefix(prevEvents, trial_events)
    /\ After("deliberate_phase") => trial_events = prevEvents
    /\ After("get_verdict") => (jurors = prevJurors /\ trial_events = prevEvents)

C19_Witness ==
    /\ history = <<"assess_case", "deliberate_phase", "get_verdict">>
    /\ Len(jurors) = 2
    /\ Len(trial_events) = 2
    /\ \A i \in Indices : jurors[i].sentiment # 0
    /\ jurors[1].persuasiveness # jurors[2].persuasiveness

----------------------------------------------------------------------------
(* C18 *)

\* C18: evaluate_evidence, called directly or through assess_case, with
\* evidence that has no base impact or whose kind is in no table, ends in an
\* error instead of counting the evidence as zero, and leaves every juror's
\* sentiment and the log as they were.
C18_MalformedEvidenceRaisesAndChangesNothing ==
    ((After("assess_case") \/ After("evaluate_evidence"))
        /\ Raises(lastOp.evidence) /\ Len(jurors) >= 1) =>
            /\ outcome = "KeyError"
            /\ jurors = prevJurors
            /\ trial_events = prevEvents

C18_Witness ==
    /\ history = <<"assess_case", "assess_case">>
    /\ Raises(lastOp.evidence)
    /\ Len(jurors) = 2
    /\ Len(trial_events) = 2
    /\ outcome = "KeyError"
    /\ \A i \in Indices : jurors[i].sentiment # 0

----------------------------------------------------------------------------
(* C11 *)

\* C11: every sentiment handed to the outside (the console listing of
\* display_juror_states, the juror labels of the UI, the sum of get_verdict)
\* lies in [-5, 5], also when it is read after assess_case, a synergy bonus
\* or an objection ruling and before the next deliberate_phase.
C11_ExternalReadsInRange ==
    \A k \in 1..Len(juror_labels) : InRange(juror_labels[k])

----------------------------------------------------------------------------
(* C12 *)

SentimentsChanged == Sentiments(jurors) # Sentiments(prevJurors)

\* every juror's sentiment is what it was before the last step, plus delta
AllMovedBy(delta) ==
    /\ Len(jurors) = Len(prevJurors)
    /\ \A k \in Indices : jurors[k].sentiment = prevJurors[k].sentiment + delta * Scale

\* C12, as stated: a juror's sentiment is changed only inside
\* Juror.evaluate_evidence and Juror.deliberate, that is, only by the steps
\* that call assess_case or deliberate_phase; the game loop, the objection
\* handling, the synergy check and the UI write none.
C12_OnlyJurorMethodsWriteSentiment ==
    SentimentsChanged =>
        lastOp.op \in {"present_evidence", "deliberation_and_verdict",
                       "ui_deliberation_and_verdict"}

\* C12, amended: besides the steps that call assess_case or
\* deliberate_phase, the game loop writes sentiments itself: after a witness
\* answer it adds 1 to every juror for each hit of the synergy check.  The
\* code after an objection adds 1 (Sustained) or -1 (Overruled) to every
\* juror once the ruling is returned; an objection whose ruling is not
\* returned changes no sentiment.  No other step changes a sentiment.
C12_SentimentWriters ==
    /\ SentimentsChanged =>
          lastOp.op \in {"present_evidence", "deliberation_and_verdict",
                         "ui_deliberation_and_verdict", "witness_answer",
                         "raise_objection", "opposing_objection"}
    /\ After("witness_answer") => AllMovedBy(SynergyHits(game.selected_evidence))
    /\ (After("raise_objection") \/ After("opposing_objection")) =>
          IF outcome = "returned" THEN AllMovedBy(1) \/ AllMovedBy(0 - 1)
          ELSE jurors = prevJurors

C12_Witness ==
    /\ After("witness_answer")
    /\ SynergyHits(game.selected_evidence) = 2
    /\ tally.synergy_bonuses = 4
    /\ Len(jurors) > 0
    /\ AllMovedBy(2)
    /\ SentimentsChanged

----------------------------------------------------------------------------
(* C13 *)

\* what the assess_case calls of the last step added to the juror directly
RECURSIVE DirectImpact(_, _, _)
DirectImpact(juror, selected_evidence, case_context) ==
    IF selected_evidence = <<>> THEN 0
    ELSE EvaluatedImpact(juror, Head(selected_evidence), case_context)
         + DirectImpact(juror, Tail(selected_evidence), case_context)

\* the sentiment of juror k before the clamp of the last deliberation, had
\* every entry of the log been applied: the entries of the given types by
\* the impact they carry, the evidence entries by evaluating them
AllEventsApplied(k, direct, types) ==
    preclamp[k] = prevJurors[k].sentiment + direct
                  + ReplayedEvidence(prevJurors[k], trial_events)
                  + CarriedImpact(trial_events, types)
                  + PeerTotal(prevJurors, k)

\* C13: whenever get_verdict is called, the sentiments it sums already
\* hold every event appended to the log before the call: witness
\* testimony, opening statements and presented evidence alike.
C13_VerdictReflectsEveryLoggedEvent ==
    /\ After("deliberation_and_verdict") =>
          \A k \in Indices :
             AllEventsApplied(k, DirectImpact(prevJurors[k], game.selected_evidence,
                                              game.case_context),
                              {"witness_testimony", "opening_statement"})
    /\ After("ui_deliberation_and_verdict") =>
          \A k \in Indices :
             AllEventsApplied(k, 0, {"witness_testimony", "opening_statement"})

----------------------------------------------------------------------------
(* C14 *)

FreshJury == trial_events = <<>> /\ \A k \in Indices : jurors[k].sentiment = 0

\* C14: every case starts with a jury of its own: when a case begins, the
\* first one or one begun by next_case, every sentiment is 0 and the log is
\* empty, so nothing of an earlier trial reaches a later verdict.
C14_EachCaseStartsWithFreshJury ==
    /\ tally.fresh_at_start
    /\ (After("next_case") /\ game.pc = "select_evidence") => FreshJury

----------------------------------------------------------------------------
(* C15 *)

\* the pairs of selected pieces of evidence that name each other's kind
QualifyingPairs(selected_evidence) ==
    {pair \in SUBSET (1..Len(selected_evidence)) :
        \E a, b \in pair :
            /\ a < b
            /\ pair = {a, b}
            /\ selected_evidence[b].type \in selected_evidence[a].synergy
            /\ selected_evidence[a].type \in selected_evidence[b].synergy}

\* C15: for two selected pieces of evidence that name each other's kind as
\* synergy partner, the bonus of +1 per juror is applied exactly once in the
\* trial: never more often than there are such pairs, and once for each by
\* the time the witnesses have been examined.
C15_SynergyBonusOncePerPair ==
    /\ tally.synergy_bonuses <= Cardinality(QualifyingPairs(game.selected_evidence))
    /\ (game.frontend = "console"
          /\ game.pc \in {"closing_arguments", "deliberation_and_verdict", "done", "exited"})
        => tally.synergy_bonuses = Cardinality(QualifyingPairs(game.selected_evidence))

----------------------------------------------------------------------------
(* C16 *)

RECURSIVE CountEvents(_, _)
CountEvents(events, type) ==
    IF events = <<>> THEN 0
    ELSE (IF Head(events).type = type THEN 1 ELSE 0) + CountEvents(Tail(events), type)

\* C16: in the courtroom proceedings every opening statement delivered,
\* every objection ruling made and every witness answer given has appended
\* exactly one event of its kind to the log, on every path, the opening
\* statement picked from the fixed list included.
C16_ProceedingsAreLogged ==
    game.frontend = "console" =>
        /\ CountEvents(trial_events, "opening_statement") = tally.opening_statements
        /\ CountEvents(trial_events, "witness_testimony") = tally.witness_answers
        /\ CountEvents(trial_events, "objection_ruling") = tally.objection_rulings

----------------------------------------------------------------------------
(* C17 *)

\* C17: assess_case is never called with evidence whose authenticated flag
\* is false.  What case_preparation leaves in selected_evidence is
\* authenticated, so deliberation_and_verdict assesses authenticated
\* evidence only, and the UI's present_evidence returns without touching
\* the jury when the evidence is not authenticated.
C17_OnlyAuthenticatedEvidenceAssessed ==
    /\ ~tally.assessed_unauthenticated
    /\ \A n \in 1..Len(trial_events) :
          trial_events[n].type = "evidence_presented" =>
              trial_events[n].evidence.authenticated
    /\ \A k \in 1..Len(game.selected_evidence) : game.selected_evidence[k].authenticated
    /\ (After("present_evidence") /\ ~lastOp.evidence.authenticated) =>
          (jurors = prevJurors /\ trial_events = prevEvents)

C17_Witness ==
    /\ After("present_evidence")
    /\ ~lastOp.evidence.authenticated
    /\ trial_events # <<>>
    /\ Len(jurors) > 0

----------------------------------------------------------------------------
(* C21 *)

CountCalls(jury_calls, op) ==
    Cardinality({k \in 1..Len(jury_calls) : jury_calls[k].op = op})

TrialEnded == AtPrompt("done")

\* C21: in a trial run through Game.deliberation_and_verdict the jury is
\* called in this order: assess_case once for each selected piece of
\* evidence, in the order of selection, then deliberate_phase, then
\* get_verdict; deliberate_phase is called exactly once per trial, and not
\* before the trial reaches deliberation_and_verdict.  What the handler
\* leaves behind agrees: the jurors are those of one deliberate_phase over
\* the log as the assess_case calls left it, and the verdict is theirs.
C21_AssessThenDeliberateOnceThenVerdict ==
    game.frontend = "console" =>
        /\ CountCalls(tally.jury_calls, "deliberate_phase") <= 1
        /\ ~TrialEnded /\ game.pc # "exited" => tally.jury_calls = <<>>
        /\ TrialEnded =>
              tally.jury_calls =
                  AssessCalls(game.selected_evidence)
                  \o <<JuryCall("deliberate_phase", "None"),
                       JuryCall("get_verdict", "None")>>
        /\ After("deliberation_and_verdict") =>
              LET a == AssessSelected([jurors |-> prevJurors,
                                       trial_events |-> prevEvents, raised |-> FALSE],
                                      game.selected_evidence, game.case_context)
              IN  /\ trial_events = a.trial_events
                  /\ jurors = deliberate_phase(a.jurors, a.trial_events).jurors
                  /\ verdict = get_verdict(jurors)

C21_Witness ==
    /\ TrialEnded
    /\ After("deliberation_and_verdict")
    /\ Len(game.selected_evidence) = 2
    /\ Len(tally.jury_calls) = 4

----------------------------------------------------------------------------
(* C22 *)

TrialEnds == After("deliberation_and_verdict") \/ After("ui_deliberation_and_verdict")

PlayerWon ==
    \/ game.role = "Prosecution" /\ verdict = "Guilty"
    \/ game.role = "Defense" /\ verdict = "Not Guilty"

\* C22: the step that ends a trial, at the console or in the UI, raises the
\* player's reputation by exactly 10 when the player is the Prosecution and
\* the verdict is Guilty or the player is the Defense and the verdict is Not
\* Guilty, and lowers it by exactly 5 in every other case (a player without
\* a role included); no other step of the game changes the reputation.
C22_ReputationPlusTenOrMinusFive ==
    game.frontend # "None" =>
        /\ TrialEnds /\ PlayerWon => game.reputation = tally.reputation_before + 10
        /\ TrialEnds /\ ~PlayerWon => game.reputation = tally.reputation_before - 5
        /\ ~TrialEnds => game.reputation = tally.reputation_before

C22_Witness ==
    /\ After("deliberation_and_verdict")
    /\ game.role = "Defense"
    /\ verdict = "Not Guilty"
    /\ game.reputation = tally.reputation_before + 10

----------------------------------------------------------------------------
(* C23 *)

\* C23: a fresh jury of 5 jurors, whatever personality, bias and
\* persuasiveness each was drawn with, that has had one assess_case of
\* Digital evidence of base impact 2.0 under an empty case context and then
\* one deliberate_phase, returns "Guilty" from get_verdict.
C23_DigitalEvidenceConvictsFreshJury ==
    After("get_verdict") /\ history = <<"assess_case", "deliberate_phase", "get_verdict">>
        => verdict = "Guilty"

C23_Witness ==
    /\ After("get_verdict")
    /\ history = <<"assess_case", "deliberate_phase", "get_verdict">>
    /\ Len(jurors) = JurySize
    /\ verdict = "Guilty"
    /\ \A k \in Indices :
          /\ jurors[k].personality = "Empathetic"
          /\ jurors[k].bias = "Empathetic"
    /\ jurors[1].persuasiveness = 5
    /\ jurors[JurySize].persuasiveness = 15

----------------------------------------------------------------------------
(* C24 *)

\* what the last call added to the sentiment of juror i
AddedTo(i) == jurors[i].sentiment - prevJurors[i].sentiment

\* the log entry the last assess_case appended for juror i
EntryOf(i) == trial_events[Len(prevEvents) + i]

\* C24: after assess_case, under every case context, the impact stored in
\* the evidence_presented entry appended for a juror equals the amount the
\* call added to that juror's sentiment.
C24_LoggedImpactIsWhatWasAdded ==
    After("assess_case") /\ outcome = "returned" =>
        \A i \in Indices :
            /\ EntryOf(i).type = "evidence_presented"
            /\ EntryOf(i).impact = AddedTo(i)

----------------------------------------------------------------------------
(* C25 *)

ObjectionRuledOn == After("raise_objection") \/ After("opposing_objection")

\* C25: an objection, the player's or the opposing side's, is ruled on: the
\* ruling is Sustained exactly when the judge's response holds "sustained"
\* in any case of letters and Overruled for every other response, and it
\* moves every juror's sentiment by the same amount, +1 when Sustained and
\* -1 when Overruled.
C25_RulingClassifiedAndApplied ==
    ObjectionRuledOn =>
        /\ outcome = "returned"
        /\ AllMovedBy(IF Contains(Lower(tally.judge_response), Sustained)
                      THEN 1 ELSE 0 - 1)

----------------------------------------------------------------------------
(* C26 *)

\* what the peer-influence pass of the last deliberate_phase added to juror
\* i: its sentiment before the clamp, less its sentiment after the replay
PeerAdded(i) == preclamp[i] - ReplayEvents(prevJurors[i], prevEvents).sentiment

RECURSIVE PeerAddedUpTo(_)
PeerAddedUpTo(n) == IF n = 0 THEN 0 ELSE PeerAddedUpTo(n - 1) + PeerAdded(n)

RECURSIVE PreclampUpTo(_)
PreclampUpTo(n) == IF n = 0 THEN 0 ELSE PreclampUpTo(n - 1) + preclamp[n]

RECURSIVE ReplayedUpTo(_)
ReplayedUpTo(n) ==
    IF n = 0 THEN 0
    ELSE ReplayedUpTo(n - 1) + ReplayEvents(prevJurors[n], prevEvents).sentiment

\* C26: over the whole jury the amounts the peer-influence pass of one
\* deliberate_phase adds sum to zero: the sum of the jurors' sentiments
\* before the clamp is the sum of their sentiments after the replay of the
\* log.
C26_PeerInfluenceSumsToZero ==
    After("deliberate_phase") =>
        /\ PeerAddedUpTo(Len(jurors)) = 0
        /\ PreclampUpTo(Len(jurors)) = ReplayedUpTo(Len(jurors))

C26_Witness ==
    /\ After("deliberate_phase")
    /\ Len(jurors) = JurySize
    /\ \E i, j \in Indices :
          /\ PeerAdded(i) = 2 * Scale
          /\ PeerAdded(j) < 0
          /\ jurors[i].persuasiveness < jurors[j].persuasiveness
    /\ PeerAddedUpTo(Len(jurors)) = 0

----------------------------------------------------------------------------
(* C27 *)

LoadedRightAfterSave ==
    /\ After("load_game")
    /\ Len(history) >= 2
    /\ history[Len(history) - 1] = "save_game"

\* C27: after save_game followed by load_game, the game's current case and
\* the player's reputation are what they were immediately before saving.
C27_SaveThenLoadRestoresCaseAndReputation ==
    LoadedRightAfterSave =>
        /\ game.current_case = tally.before_save.current_case
        /\ game.reputation = tally.before_save.reputation

----------------------------------------------------------------------------
(* C28 *)

\* how many questions the witness at position w of the case has been asked
QuestionsAsked(w) ==
    Cardinality({k \in 1..Len(tally.questions) : tally.questions[k] = w})

IsPermutationOf(order, list) ==
    /\ Len(order) = Len(list)
    /\ \A w \in 1..Len(list) : Cardinality({k \in 1..Len(order) : order[k] = w}) = 1

ExaminationOver == AtPrompt("closing_arguments") /\ game.entered = "continue_case"

\* C28: the order case_preparation accepts is a permutation of the case's
\* witnesses, and when examine_witnesses has run through it every witness
\* has been examined exactly once, with exactly three questions.
C28_OrderIsPermutationEachWitnessThreeQuestions ==
    /\ (game.frontend = "console" /\ game.selected_witness_order # <<>>) =>
            IsPermutationOf(game.selected_witness_order, game.witnesses)
    /\ ExaminationOver =>
            \A w \in 1..Len(game.witnesses) : QuestionsAsked(w) = QuestionsPerWitness

----------------------------------------------------------------------------
(* C29 *)

CasePreparationComplete == After("case_preparation") /\ AtPrompt("opening_statements")

\* C29: when case_preparation completes, selected_evidence holds at most
\* two pieces of evidence, whatever the player typed.
C29_AtMostTwoPiecesSelected ==
    CasePreparationComplete => Len(game.selected_evidence) <= 2

----------------------------------------------------------------------------
(* C30 *)

StressUpdated == After("update_stress") \/ After("respond")

\* C30: a witness whose stress started within [0, 10] has a stress within
\* [0, 10] after every update_stress, whatever the strategy (Friendly,
\* Neutral, Aggressive) and the personality list.
C30_StressStaysInRange ==
    StressUpdated => (0 <= witness.stress /\ witness.stress <= 10)

\* a Friendly question to an Evasive witness at stress 1 or 0: the sum is
\* below 0 and the stress is 0
C30_Witness ==
    /\ StressUpdated
    /\ witness.unclamped < 0
    /\ witness.stress = 0

====
